---------------------------- MODULE Spec2Model ----------------------------
(***************************************************************************)
(* LaTeX math to image converter, main.py (version 2.2.0).                 *)
(*                                                                         *)
(* Texts are sequences of one-character strings.  Offsets are Python       *)
(* offsets: 0-based, end exclusive; text[a:b] is SubSeq(text, a+1, b).      *)
(***************************************************************************)
EXTENDS Integers, Sequences, FiniteSets, TLC

VARIABLES
    pc,              \* position of the program
    content,         \* text of the .tex file on disk
    equations_data,  \* list returned by extract_equations_with_spans
    pkg_in,          \* argument of the last add_graphicx_package call
    pkg_out,         \* its result
    mode,            \* the main loop's locals: mode, latex_input, output_name,
    latex_input,     \*   dpi_input, dpi, file_path, sub_mode, replacements_made
    output_name,     \*   (cleared at the loop head, where all of them are dead)
    dpi_input,
    dpi,
    file_path,
    sub_mode,
    replacements_made,
    replacements_for_content,  \* the replacement records collected by the batch loop
    final_content,   \* the text built from original_content and the records
    render_calls,    \* latex_to_image calls of this loop iteration
    open_figures,    \* pyplot figures created and not closed
    tex_file,        \* <<text>> once <base>_with_images.tex is written in this iteration
    printed          \* console messages of this loop iteration

locals == <<mode, latex_input, output_name, dpi_input, dpi, file_path, sub_mode,
            replacements_made, replacements_for_content, final_content>>

session == <<locals, render_calls, open_figures, tex_file, printed>>

vars == <<pc, content, equations_data, pkg_in, pkg_out, session>>

\* the locals before any assignment, nothing rendered, written or printed
Cleared ==
    /\ mode = <<>> /\ latex_input = <<>> /\ output_name = <<>>
    /\ dpi_input = <<>> /\ dpi = 0 /\ file_path = <<>> /\ sub_mode = <<>>
    /\ replacements_made = 0
    /\ replacements_for_content = <<>> /\ final_content = <<>>
    /\ render_calls = <<>> /\ tex_file = <<>> /\ printed = <<>>

NoSession == Cleared /\ open_figures = 0

(***************************************************************************)
(* Bounds of the model.                                                    *)
(***************************************************************************)
MaxDocLen == 7

(***************************************************************************)
(* Text helpers: Python's str slicing, `in`, str.find.                      *)
(***************************************************************************)
Slice(s, a, b) == SubSeq(s, a + 1, b)

\* s.startswith(pat, i), i a 0-based offset
OccursAt(s, pat, i) ==
    /\ i >= 0
    /\ i + Len(pat) <= Len(s)
    /\ \A k \in 1..Len(pat) : s[i + k] = pat[k]

\* s.find(pat, from): the least offset >= from where pat occurs, or -1
Find(s, pat, from) ==
    LET hits == {i \in from..(Len(s) - Len(pat)) : OccursAt(s, pat, i)}
    IN  IF hits = {} THEN -1 ELSE CHOOSE i \in hits : \A j \in hits : i <= j

\* the regex lookbehind (?<!\\) at offset i
NotEscaped(s, i) == i = 0 \/ s[i] # "\\"

Range(seq) == {seq[k] : k \in 1..Len(seq)}

(***************************************************************************)
(* extract_equations_with_spans: the two patterns and re.finditer.          *)
(***************************************************************************)
\* display_pattern  (?<!\\)\$\$((?:(?!\$\$).)*?)(?<!\\)\$\$  matched at offset
\* i: the end offset of the match, or -1.  The content cannot run over a
\* `$$`, so the closing pair is the first `$$` at or after i+2, and it
\* closes only when it is not preceded by a backslash.
display_match(s, i) ==
    IF ~(OccursAt(s, <<"$", "$">>, i) /\ NotEscaped(s, i)) THEN -1
    ELSE LET j == Find(s, <<"$", "$">>, i + 2)
         IN  IF j >= 0 /\ NotEscaped(s, j) THEN j + 2 ELSE -1

\* inline_pattern  (?<!\\)\$((?:(?!\$).)*?)(?<!\\)\$  matched at offset i
inline_match(s, i) ==
    IF ~(OccursAt(s, <<"$">>, i) /\ NotEscaped(s, i)) THEN -1
    ELSE LET j == Find(s, <<"$">>, i + 1)
         IN  IF j >= 0 /\ NotEscaped(s, j) THEN j + 1 ELSE -1

Span(s, a, b, disp) ==
    [start |-> a, end |-> b, raw |-> Slice(s, a, b), display |-> disp]

\* re.finditer(display_pattern, content, re.DOTALL): leftmost match at or
\* after pos, then on from its end
RECURSIVE display_finditer(_, _)
display_finditer(s, pos) ==
    LET hits == {i \in pos..(Len(s) - 1) : display_match(s, i) >= 0}
    IN  IF hits = {} THEN <<>>
        ELSE LET i == CHOOSE x \in hits : \A y \in hits : x <= y
                 e == display_match(s, i)
             IN  <<Span(s, i, e, TRUE)>> \o display_finditer(s, e)

RECURSIVE inline_finditer(_, _)
inline_finditer(s, pos) ==
    LET hits == {i \in pos..(Len(s) - 1) : inline_match(s, i) >= 0}
    IN  IF hits = {} THEN <<>>
        ELSE LET i == CHOOSE x \in hits : \A y \in hits : x <= y
                 e == inline_match(s, i)
             IN  <<Span(s, i, e, FALSE)>> \o inline_finditer(s, e)

\* the containment test written with strict comparisons
is_overlap_strict(m, data) ==
    \E k \in 1..Len(data) : m.start > data[k].start /\ m.end < data[k].end

\* the containment test of main.py line 108, against every entry collected
\* so far (the list holds the display matches and the inline ones kept)
is_overlap(m, data) ==
    \E k \in 1..Len(data) : m.start >= data[k].start /\ m.end <= data[k].end

RECURSIVE keep_inline(_, _)
keep_inline(cands, data) ==
    IF cands = <<>> THEN data
    ELSE keep_inline(Tail(cands),
                     IF is_overlap(Head(cands), data) THEN data
                     ELSE Append(data, Head(cands)))

\* list.sort(key=lambda x: x[0]): stable, by start offset only
RECURSIVE sort_by_start(_)
sort_by_start(data) ==
    IF data = <<>> THEN <<>>
    ELSE LET rest == sort_by_start(Tail(data))
             h    == Head(data)
             n    == Cardinality({k \in 1..Len(rest) : rest[k].start < h.start})
         IN  SubSeq(rest, 1, n) \o <<h>> \o SubSeq(rest, n + 1, Len(rest))

\* the body of the try block, lines 85-115
extract_from_content(s) ==
    sort_by_start(keep_inline(inline_finditer(s, 0), display_finditer(s, 0)))

(***************************************************************************)
(* The Locator alone, on every text over a small alphabet.                  *)
(***************************************************************************)
Sigma == {"$", "\\", "a"}

Texts(n) == UNION {[1..k -> Sigma] : k \in 0..n}

\* the two documents the specification gives as examples
ExampleTwoSpans ==
    <<"S", "t", "a", "r", "t", " ", "$", "$", "a", "+", "b", "$", "$", " ",
      "m", "i", "d", "d", "l", "e", " ", "$", "c", "-", "d", "$", " ",
      "e", "n", "d", ".">>

ExampleNested == <<"$", "$", "x", " ", "$", " ", "y", "$", " ", "z", "$", "$">>

InitLocate ==
    /\ pc = "start"
    /\ content \in Texts(MaxDocLen) \cup {ExampleTwoSpans, ExampleNested}
    /\ equations_data = <<>>
    /\ pkg_in = <<>>
    /\ pkg_out = <<>>
    /\ NoSession

Locate ==
    /\ pc = "start"
    /\ pc' = "located"
    /\ equations_data' = extract_from_content(content)
    /\ UNCHANGED <<content, pkg_in, pkg_out, session>>

NextLocate == Locate

SpecLocate == InitLocate /\ [][NextLocate]_vars

(***************************************************************************)
(* Claims about the Locator (checked under SpecLocate).                     *)
(***************************************************************************)
Disjoint(x, y) == x.end <= y.start \/ y.end <= x.start

\* C1: the spans the Locator returns are pairwise non-overlapping: of any
\* two returned spans, one ends at or before the offset where the other
\* starts.
C1_SpansNonOverlapping ==
    pc = "located" =>
        \A i, j \in 1..Len(equations_data) :
            i # j => Disjoint(equations_data[i], equations_data[j])

\* the text has no `$` at the offsets a..b-1
NoDollar(s, a, b) == \A k \in (a + 1)..b : s[k] # "$"

\* the text is: plain text, one display span at [ds, de), plain text, one
\* inline span at [is, ie), plain text (the two spans in either order, not
\* overlapping, possibly adjacent); no delimiter is escaped and the inline
\* body is not empty
OneDisplayOneInline(s, ds, de, is, ie) ==
    /\ de - ds >= 4 /\ ie - is >= 3
    /\ de <= is \/ ie <= ds
    /\ OccursAt(s, <<"$", "$">>, ds) /\ OccursAt(s, <<"$", "$">>, de - 2)
    /\ OccursAt(s, <<"$">>, is) /\ OccursAt(s, <<"$">>, ie - 1)
    /\ NotEscaped(s, ds) /\ NotEscaped(s, de - 2)
    /\ NotEscaped(s, is) /\ NotEscaped(s, ie - 1)
    /\ NoDollar(s, ds + 2, de - 2) /\ NoDollar(s, is + 1, ie - 1)
    /\ \A k \in 0..(Len(s) - 1) :
          (k < ds \/ k >= de) /\ (k < is \/ k >= ie) => s[k + 1] # "$"

\* C2: for a document with exactly one display span and one inline span
\* that do not overlap, in either order and also when adjacent, the Locator
\* returns exactly the two spans, ascending by start offset, each with its
\* raw text document[start:end] and its kind; the specification's example
\* yields (6,13,display), (21,26,inline).
C2_OneDisplayOneInlineLocated ==
    pc = "located" =>
        /\ \A ds, de, is, ie \in 0..Len(content) :
              OneDisplayOneInline(content, ds, de, is, ie) =>
                  equations_data =
                      IF ds < is
                      THEN <<Span(content, ds, de, TRUE), Span(content, is, ie, FALSE)>>
                      ELSE <<Span(content, is, ie, FALSE), Span(content, ds, de, TRUE)>>
        /\ content = ExampleTwoSpans =>
              equations_data = <<Span(content, 6, 13, TRUE), Span(content, 21, 26, FALSE)>>

Inside(x, y) == x.start >= y.start /\ x.end <= y.end

\* C3: an inline candidate whose range lies completely inside a collected
\* display span is never returned; for `$$x $ y$ z$$` the one span returned
\* is the display span over the whole region.
C3_InlineInsideDisplayDiscarded ==
    pc = "located" =>
        /\ \A i, d \in 1..Len(equations_data) :
              ~equations_data[i].display /\ equations_data[d].display
                  => ~Inside(equations_data[i], equations_data[d])
        /\ \A c \in Range(inline_finditer(content, 0)) :
              (\E m \in Range(display_finditer(content, 0)) : Inside(c, m))
                  => c \notin Range(equations_data)
        /\ content = ExampleNested =>
              equations_data = <<Span(content, 0, 12, TRUE)>>

\* an inline candidate with a body (`$ y$`) inside a display span, located
C3_Witness ==
    /\ pc = "located"
    /\ \E c \in Range(inline_finditer(content, 0)) :
          /\ c.end - c.start >= 3
          /\ \E d \in Range(equations_data) : d.display /\ Inside(c, d)

\* the least offset >= from of a `$` that is not preceded by a backslash, or -1
NextUnescapedDollar(s, from) ==
    LET hits == {i \in from..(Len(s) - 1) : OccursAt(s, <<"$">>, i) /\ NotEscaped(s, i)}
    IN  IF hits = {} THEN -1 ELSE CHOOSE i \in hits : \A j \in hits : i <= j

\* the shortest runs between two non-escaped `$`, from left to right: a run
\* opens at a non-escaped `$` and closes at the next non-escaped `$`, so its
\* content holds no `$` but escaped ones
RECURSIVE InlineRuns(_, _)
InlineRuns(s, pos) ==
    LET i == NextUnescapedDollar(s, pos)
        j == IF i < 0 THEN -1 ELSE NextUnescapedDollar(s, i + 1)
    IN  IF j < 0 THEN <<>>
        ELSE <<Span(s, i, j + 1, FALSE)>> \o InlineRuns(s, j + 1)

\* the entries of a list that lie inside no display span of data
RECURSIVE OutsideDisplay(_, _)
OutsideDisplay(runs, data) ==
    IF runs = <<>> THEN <<>>
    ELSE (IF \E d \in Range(data) : d.display /\ Inside(Head(runs), d)
          THEN <<>> ELSE <<Head(runs)>>)
         \o OutsideDisplay(Tail(runs), data)

RECURSIVE InlineOf(_)
InlineOf(data) ==
    IF data = <<>> THEN <<>>
    ELSE (IF Head(data).display THEN <<>> ELSE <<Head(data)>>) \o InlineOf(Tail(data))

\* C13: outside display spans, the inline spans returned are exactly the
\* shortest runs between two non-escaped single `$` whose content holds no
\* unescaped `$`: an escaped `$` neither opens nor closes a span, and a run
\* whose content holds an escaped `$` is located as one inline span.
C13_InlineRunsBetweenUnescapedDollars ==
    pc = "located" =>
        InlineOf(equations_data) = OutsideDisplay(InlineRuns(content, 0), equations_data)

(***************************************************************************)
(* add_graphicx_package.                                                    *)
(***************************************************************************)
UsePackageGraphicx ==
    <<"\\", "u", "s", "e", "p", "a", "c", "k", "a", "g", "e", "{",
      "g", "r", "a", "p", "h", "i", "c", "x", "}">>

DocumentClassOpen ==
    <<"\\", "d", "o", "c", "u", "m", "e", "n", "t", "c", "l", "a", "s", "s", "{">>

BeginDocument ==
    <<"\\", "b", "e", "g", "i", "n", "{", "d", "o", "c", "u", "m", "e", "n", "t", "}">>

\* r'\usepackage{graphicx}' not in content
package_missing(c) == Find(c, UsePackageGraphicx, 0) < 0

\* (\\documentclass\{.*?\}.*?)(\\begin\{document\}) matched at offset i with
\* re.DOTALL: the offset where group 2 starts, or -1.  Each lazy `.*?` stops
\* at the first place where the rest of the pattern can go on.
preamble_match(c, i) ==
    IF ~OccursAt(c, DocumentClassOpen, i) THEN -1
    ELSE LET j == Find(c, <<"}">>, i + Len(DocumentClassOpen))
         IN  IF j < 0 THEN -1 ELSE Find(c, BeginDocument, j + 1)

\* the declaration is added whatever the text holds
add_graphicx_package_unconditional(c) == UsePackageGraphicx \o <<"\n">> \o c

\* add_graphicx_package(content), lines 127-138
add_graphicx_package(c) ==
    IF package_missing(c)
    THEN LET hits == {i \in 0..(Len(c) - 1) : preamble_match(c, i) >= 0}
         IN  IF hits # {}
             THEN LET i == CHOOSE x \in hits : \A y \in hits : x <= y  \* re.search
                      k == preamble_match(c, i)
                  IN  Slice(c, i, k) \o <<"\n">> \o UsePackageGraphicx
                          \o Slice(c, k, k + Len(BeginDocument))
                          \o Slice(c, k + Len(BeginDocument), Len(c))
             ELSE UsePackageGraphicx \o <<"\n">> \o c
    ELSE c

(***************************************************************************)
(* add_graphicx_package alone, on texts put together from the constructs   *)
(* it looks for.                                                            *)
(***************************************************************************)
MaxPkgFrags == 3

\* a class declaration with an option, \documentclass[b]{a}
DocumentClassWithOptions ==
    SubSeq(DocumentClassOpen, 1, Len(DocumentClassOpen) - 1)
        \o <<"[", "b", "]", "{", "a", "}">>

PkgFragments ==
    { UsePackageGraphicx,
      DocumentClassOpen \o <<"a", "}">>,
      DocumentClassWithOptions,
      BeginDocument,
      <<"x">> }

RECURSIVE Flatten(_)
Flatten(ss) == IF ss = <<>> THEN <<>> ELSE Head(ss) \o Flatten(Tail(ss))

Concats(frags, n) == {Flatten(f) : f \in UNION {[1..k -> frags] : k \in 0..n}}

InitPackage ==
    /\ pc = "start"
    /\ content \in Concats(PkgFragments, MaxPkgFrags)
    /\ equations_data = <<>>
    /\ pkg_in = <<>>
    /\ pkg_out = <<>>
    /\ NoSession

\* final_content = add_graphicx_package(final_content)
AddPackage ==
    /\ pc = "start"
    /\ pc' = "added"
    /\ pkg_in' = content
    /\ pkg_out' = add_graphicx_package(content)
    /\ UNCHANGED <<content, equations_data, session>>

\* the function called again on its own result
AddPackageAgain ==
    /\ pc = "added"
    /\ pc' = "added twice"
    /\ pkg_in' = pkg_out
    /\ pkg_out' = add_graphicx_package(pkg_out)
    /\ UNCHANGED <<content, equations_data, session>>

NextPackage == AddPackage \/ AddPackageAgain

SpecPackage == InitPackage /\ [][NextPackage]_vars

(***************************************************************************)
(* Claims about add_graphicx_package (checked under SpecPackage).           *)
(***************************************************************************)
\* C9: add_graphicx_package is idempotent: applied to its own result it
\* returns that result unchanged, whether the declaration was already
\* present, was inserted before \begin{document}, or was prepended.
C9_AddPackageIdempotent ==
    pc = "added twice" => pkg_out = pkg_in

\* the first call inserted the declaration before \begin{document}, and the
\* function has been applied to that result
C9_Witness ==
    /\ pc = "added twice"
    /\ package_missing(content)
    /\ \E i \in 0..(Len(content) - 1) : preamble_match(content, i) >= 0
    /\ pkg_in # content


(***************************************************************************)
(* Console input conversions: str.strip, str.lower, str.startswith, int,    *)
(* eval of a raw string literal, os.path.basename and os.path.splitext.     *)
(***************************************************************************)
Whitespace == {" ", "\t", "\n"}

RECURSIVE lstrip(_)
lstrip(s) == IF s # <<>> /\ Head(s) \in Whitespace THEN lstrip(Tail(s)) ELSE s

RECURSIVE rstrip(_)
rstrip(s) ==
    IF s # <<>> /\ s[Len(s)] \in Whitespace THEN rstrip(SubSeq(s, 1, Len(s) - 1)) ELSE s

strip(s) == rstrip(lstrip(s))

lower_char(c) ==
    CASE c = "E" -> "e" [] c = "F" -> "f" [] c = "I" -> "i"
      [] c = "M" -> "m" [] c = "R" -> "r" [] OTHER -> c

lower(s) == [k \in 1..Len(s) |-> lower_char(s[k])]

startswith(s, prefix) == OccursAt(s, prefix, 0)

Digits == {"0", "1", "2", "3", "4", "5", "6", "7", "8", "9"}

digit_value(c) ==
    CASE c = "0" -> 0 [] c = "1" -> 1 [] c = "2" -> 2 [] c = "3" -> 3 [] c = "4" -> 4
      [] c = "5" -> 5 [] c = "6" -> 6 [] c = "7" -> 7 [] c = "8" -> 8 [] c = "9" -> 9

digit_char(n) == CHOOSE c \in Digits : digit_value(c) = n

RECURSIVE digits_value(_)
digits_value(s) ==
    IF s = <<>> THEN 0
    ELSE 10 * digits_value(SubSeq(s, 1, Len(s) - 1)) + digit_value(s[Len(s)])

\* the text after the optional sign of a stripped int() argument
unsigned_part(s) == IF s # <<>> /\ Head(s) \in {"+", "-"} THEN Tail(s) ELSE s

\* int(s) does not raise ValueError: optional blanks, optional sign, digits
int_parses(s) ==
    LET u == unsigned_part(strip(s))
    IN  u # <<>> /\ \A k \in 1..Len(u) : u[k] \in Digits

\* int(s)
int_value(s) ==
    LET t == strip(s)
        v == digits_value(unsigned_part(t))
    IN  IF Head(t) = "-" THEN 0 - v ELSE v

\* str(n) for a natural number n
RECURSIVE str_nat(_)
str_nat(n) ==
    IF n < 10 THEN <<digit_char(n)>>
    ELSE str_nat(n \div 10) \o <<digit_char(n % 10)>>

\* eval(latex_input) for an input written as a raw string literal: the
\* literal r'...' with no quote inside evaluates to its body; a literal that
\* is not closed is a SyntaxError
eval_is_syntax_error(s) ==
    ~( /\ Len(s) >= 3
       /\ s[1] = "r" /\ s[2] = "'" /\ s[Len(s)] = "'"
       /\ \A k \in 3..(Len(s) - 1) : s[k] # "'" )

eval_value(s) == SubSeq(s, 3, Len(s) - 1)

\* the offsets (1-based) of character c in s
Positions(s, c) == {k \in 1..Len(s) : s[k] = c}

Max(S) == CHOOSE x \in S : \A y \in S : y <= x

\* os.path.basename(path)
basename(path) ==
    LET sl == Positions(path, "/")
    IN  IF sl = {} THEN path ELSE SubSeq(path, Max(sl) + 1, Len(path))

\* os.path.splitext(name)[0]: up to the last dot, leading dots not counted
splitext_root(name) ==
    LET dots == {k \in Positions(name, ".") : \E j \in 1..(k - 1) : name[j] # "."}
    IN  IF dots = {} THEN name ELSE SubSeq(name, 1, Max(dots) - 1)

(***************************************************************************)
(* latex_to_image.                                                          *)
(***************************************************************************)
\* what one call can do: succeed; fail in ax.text or plt.savefig (the
\* typesetting engine rejects the text), after plt.figure returned; fail in
\* plt.figure itself
RenderOutcomes == {"ok", "draw error", "figure error"}

\* figures a call leaves open: plt.close(fig), line 57, is reached on
\* success only; the except block re-raises without closing
figure_left_open(outcome) == IF outcome = "draw error" THEN 1 ELSE 0

RECURSIVE figures_left_open(_)
figures_left_open(outcomes) ==
    IF outcomes = <<>> THEN 0
    ELSE figure_left_open(Head(outcomes)) + figures_left_open(Tail(outcomes))

\* one call as the caller sees it
RenderCall(equation, file, resolution, outcome) ==
    [equation |-> equation, file |-> file, dpi |-> resolution, ok |-> outcome = "ok"]

\* lines 59 and 63-65
render_messages(outcome) ==
    IF outcome = "ok" THEN <<"Successfully converted">>
    ELSE <<"An error occurred during image generation">>

(***************************************************************************)
(* File mode: image names, replacement texts and the splice.                *)
(***************************************************************************)
DefaultDpi == 300

OutputDir == <<"o", "u", "t", "p", "u", "t", "_", "i", "m", "a", "g", "e", "s", "/">>

DefaultOutputName ==
    <<"o", "u", "t", "p", "u", "t", "_", "e", "q", "u", "a", "t", "i", "o", "n",
      ".", "p", "n", "g">>

\* f"{tex_file_base_name}_equation_{i+1}.png", i the 0-based index
image_filename(base, i) ==
    base \o <<"_", "e", "q", "u", "a", "t", "i", "o", "n", "_">> \o str_nat(i + 1)
         \o <<".", "p", "n", "g">>

\* lines 250-260
replacement_text(is_display_math, image_name) ==
    IF is_display_math
    THEN <<"\n", "\\", "b", "e", "g", "i", "n", "{", "c", "e", "n", "t", "e", "r", "}", "\n">>
         \o <<"\\", "i", "n", "c", "l", "u", "d", "e", "g", "r", "a", "p", "h", "i", "c", "s", "{">>
         \o image_name \o <<"}">>
         \o <<"\n", "\\", "e", "n", "d", "{", "c", "e", "n", "t", "e", "r", "}", "\n">>
    ELSE <<"\\", "r", "a", "i", "s", "e", "b", "o", "x", "{", "-", "0", ".", "2",
           "\\", "h", "e", "i", "g", "h", "t", "}", "{",
           "\\", "i", "n", "c", "l", "u", "d", "e", "g", "r", "a", "p", "h", "i", "c", "s",
           "[", "w", "i", "d", "t", "h", "=", "0", ".", "1", "5",
           "\\", "l", "i", "n", "e", "w", "i", "d", "t", "h", "]", "{">>
         \o image_name \o <<"}", "}">>

\* the loop of lines 238-265: the calls made, in list order
batch_calls(eqs, base, resolution, outcomes) ==
    [k \in 1..Len(eqs) |->
        RenderCall(eqs[k].raw, OutputDir \o image_filename(base, k - 1),
                   resolution, outcomes[k])]

\* replacements_for_content after the loop (sub-mode r): one entry per call
\* that did not raise
RECURSIVE replacements_from(_, _, _)
replacements_from(eqs, calls, k) ==
    IF k > Len(eqs) THEN <<>>
    ELSE (IF calls[k].ok
          THEN <<[start |-> eqs[k].start, end |-> eqs[k].end,
                  text  |-> replacement_text(eqs[k].display, basename(calls[k].file))]>>
          ELSE <<>>)
         \o replacements_from(eqs, calls, k + 1)

\* what the loop prints
RECURSIVE batch_messages(_)
batch_messages(outcomes) ==
    IF outcomes = <<>> THEN <<>>
    ELSE render_messages(Head(outcomes))
         \o (IF Head(outcomes) = "ok" THEN <<>> ELSE <<"Skipping image generation">>)
         \o batch_messages(Tail(outcomes))

\* the list sorted without reverse=True: ascending
RECURSIVE sort_by_start_forward(_)
sort_by_start_forward(reps) ==
    IF reps = <<>> THEN <<>>
    ELSE LET rest == sort_by_start_forward(Tail(reps))
             h    == Head(reps)
             n    == Cardinality({k \in 1..Len(rest) : rest[k].start < h.start})
         IN  SubSeq(rest, 1, n) \o <<h>> \o SubSeq(rest, n + 1, Len(rest))

\* list.sort(key=lambda x: x[0], reverse=True): stable, descending
RECURSIVE sort_by_start_reverse(_)
sort_by_start_reverse(reps) ==
    IF reps = <<>> THEN <<>>
    ELSE LET rest == sort_by_start_reverse(Tail(reps))
             h    == Head(reps)
             n    == Cardinality({k \in 1..Len(rest) : rest[k].start > h.start})
         IN  SubSeq(rest, 1, n) \o <<h>> \o SubSeq(rest, n + 1, Len(rest))

Min2(a, b) == IF a <= b THEN a ELSE b

Max2(a, b) == IF a >= b THEN a ELSE b

\* final_chars[a:b] = list(text): Python clamps the slice to the list
slice_assign(chars, a, b, text) ==
    LET a1 == Min2(a, Len(chars))
        b1 == Max2(Min2(b, Len(chars)), a1)
    IN  SubSeq(chars, 1, a1) \o text \o SubSeq(chars, b1 + 1, Len(chars))

\* the loop of lines 273-275 over the sorted list
RECURSIVE apply_replacements(_, _)
apply_replacements(chars, reps) ==
    IF reps = <<>> THEN chars
    ELSE apply_replacements(
             slice_assign(chars, Head(reps).start, Head(reps).end, Head(reps).text),
             Tail(reps))

\* lines 270-277
splice(original_content, reps) ==
    apply_replacements(original_content, sort_by_start_reverse(reps))

(***************************************************************************)
(* The splice of lines 267-277 alone: a short document and the replacement *)
(* records of its ranges, collected in any order.  The records may overlap, *)
(* as the spans of extract_equations_with_spans can; every range holds at   *)
(* least one character, as every span does.                                 *)
(***************************************************************************)
MaxSpliceLen == 4

MaxRecords == 2

SpliceSigma == {"a", "b"}

\* replacement texts, shorter and longer than the ranges they stand for
ReplacementTexts == {<<"X">>, <<"Y", "Z", "Y">>}

RecordsOf(text) ==
    { [start |-> a, end |-> b, text |-> r] :
        a \in 0..Len(text), b \in 0..Len(text), r \in ReplacementTexts }

InitSplice ==
    /\ pc = "start"
    /\ content \in UNION {[1..k -> SpliceSigma] : k \in 0..MaxSpliceLen}
    /\ equations_data = <<>>
    /\ pkg_in = <<>>
    /\ pkg_out = <<>>
    /\ NoSession

\* the batch loop has collected its records (line 262)
Collect ==
    /\ pc = "start"
    /\ \E n \in 0..MaxRecords :
          \E reps \in [1..n -> {r \in RecordsOf(content) : r.start < r.end}] :
              replacements_for_content' = reps
    /\ pc' = "collected"
    /\ UNCHANGED <<content, equations_data, pkg_in, pkg_out, mode, latex_input,
                   output_name, dpi_input, dpi, file_path, sub_mode, replacements_made,
                   final_content, render_calls, open_figures, tex_file, printed>>

\* lines 270-277
Splice ==
    /\ pc = "collected"
    /\ final_content' = splice(content, replacements_for_content)
    /\ replacements_made' = Len(replacements_for_content)
    /\ pc' = "spliced"
    /\ UNCHANGED <<content, equations_data, pkg_in, pkg_out, mode, latex_input,
                   output_name, dpi_input, dpi, file_path, sub_mode,
                   replacements_for_content, render_calls, open_figures, tex_file,
                   printed>>

NextSplice == Collect \/ Splice

SpecSplice == InitSplice /\ [][NextSplice]_vars

(***************************************************************************)
(* Claims about the splice (checked under SpecSplice).                      *)
(***************************************************************************)
\* the ranges are in bounds and no two of them share a character
RangesDisjoint(text, reps) ==
    /\ \A k \in 1..Len(reps) :
          0 <= reps[k].start /\ reps[k].start < reps[k].end /\ reps[k].end <= Len(text)
    /\ \A i, j \in 1..Len(reps) : i # j => Disjoint(reps[i], reps[j])

\* the records in ascending order of start offset
Ascending(reps) == sort_by_start(reps)

\* one pass from left to right over the original text: untouched text is
\* copied, each range gives way to its replacement text (reps ascending)
RECURSIVE LeftToRight(_, _, _, _)
LeftToRight(text, reps, k, pos) ==
    IF k > Len(reps) THEN Slice(text, pos, Len(text))
    ELSE Slice(text, pos, reps[k].start) \o reps[k].text
         \o LeftToRight(text, reps, k + 1, reps[k].end)

\* the characters of the text that lie in no range, in their order
RECURSIVE Untouched(_, _, _)
Untouched(text, reps, i) ==
    IF i >= Len(text) THEN <<>>
    ELSE (IF \E k \in 1..Len(reps) : reps[k].start <= i /\ i < reps[k].end
          THEN <<>> ELSE <<text[i + 1]>>)
         \o Untouched(text, reps, i + 1)

\* the characters of the result that come from the document
RECURSIVE FromDocument(_)
FromDocument(s) ==
    IF s = <<>> THEN <<>>
    ELSE (IF Head(s) \in SpliceSigma THEN <<Head(s)>> ELSE <<>>) \o FromDocument(Tail(s))

Reordered(reps, p) == [k \in 1..Len(reps) |-> reps[p[k]]]

\* C11: for records whose ranges are in bounds and pairwise non-overlapping,
\* the splice (sort by start descending, overwrite each range in turn with
\* the original offsets) gives exactly the text of one left-to-right pass
\* that copies untouched text and puts each replacement text in place of its
\* range; the result is the same for every order in which the records were
\* collected, and the characters outside the ranges are kept in their order.
C11_SpliceIsLeftToRightPass ==
    (pc = "spliced" /\ RangesDisjoint(content, replacements_for_content)) =>
        /\ final_content =
               LeftToRight(content, Ascending(replacements_for_content), 1, 0)
        /\ \A p \in Permutations(1..Len(replacements_for_content)) :
               splice(content, Reordered(replacements_for_content, p)) = final_content
        /\ FromDocument(final_content) = Untouched(content, replacements_for_content, 0)

\* two disjoint ranges collected in ascending order, the first replaced by a
\* text of another length, with text kept before the first and after the last
C11_Witness ==
    /\ pc = "spliced"
    /\ RangesDisjoint(content, replacements_for_content)
    /\ Len(replacements_for_content) = 2
    /\ replacements_for_content[1].start < replacements_for_content[2].start
    /\ replacements_for_content[1].start > 0
    /\ replacements_for_content[2].end < Len(content)
    /\ Len(replacements_for_content[1].text)
           # replacements_for_content[1].end - replacements_for_content[1].start
    /\ final_content # content

(***************************************************************************)
(* The interactive session, lines 140-311.  Each action is the program's   *)
(* run from one input() call to the next one (or to its end); file mode    *)
(* stops once more after the file is scanned.  The files the user can name *)
(* are one readable .tex file holding `content`, a path that does not      *)
(* exist and a file that cannot be decoded.                                 *)
(***************************************************************************)
MaxFrags == 3

MaxFigures == 2

TexPath == <<"t", "/", "d", ".", "t", "e", "x">>

MissingPath == <<"m", ".", "t", "e", "x">>

UnreadablePath == <<"u", ".", "t", "e", "x">>

DocFragments ==
    { <<"$", "a", "$">>,
      <<"$", "$", "b", "$", "$">>,
      UsePackageGraphicx,
      DocumentClassOpen \o <<"a", "}">> \o BeginDocument }

ModeInputs == {<<"m">>, <<"f">>, <<"e">>, <<" ", "F", " ">>, <<"q">>, <<>>}

LatexInputs ==
    { <<"r", "'", "$", "x", "$", "'">>,
      <<"r", "'", "$", "$", "x", "$", "$", "'">>,
      <<"r", "'", "$", "x", "$">>,
      <<"$", "x", "$">> }

NameInputs == {<<>>, <<"e", ".", "p", "n", "g">>}

DpiInputs ==
    { <<>>, <<"a", "b", "c">>, <<"3", ".", "5">>, <<"1", "5", "0">>, <<"0">>, <<"-", "5">> }

PathInputs == {TexPath, MissingPath, UnreadablePath}

SubModeInputs == {<<"i">>, <<"r">>, <<" ", "R">>, <<"x">>}

Init ==
    /\ pc = "AwaitingMode"
    /\ content \in Concats(DocFragments, MaxFrags)
    /\ equations_data = <<>>
    /\ pkg_in = <<>>
    /\ pkg_out = <<>>
    /\ NoSession

\* open(file_path) in extract_equations_with_spans, lines 81-83 and 117-120
file_status(path) ==
    IF path = TexPath THEN "ok"
    ELSE IF path = UnreadablePath THEN "unreadable" ELSE "missing"

\* extract_equations_with_spans(file_path): the list returned
extract_equations_with_spans(path, text) ==
    IF file_status(path) = "ok" THEN extract_from_content(text) ELSE <<>>

\* and what it prints
extract_messages(path) ==
    IF file_status(path) = "ok" THEN <<>>
    ELSE IF file_status(path) = "missing" THEN <<"Error: The file was not found">>
    ELSE <<"An error occurred while reading or parsing the LaTeX file">>

\* dpi = int(dpi_input) if dpi_input else 300, except ValueError: dpi = 300
dpi_from_input(inp) ==
    IF inp = <<>> THEN DefaultDpi
    ELSE IF int_parses(inp) THEN int_value(inp) ELSE DefaultDpi

dpi_messages(inp) ==
    IF inp # <<>> /\ ~int_parses(inp) THEN <<"Invalid DPI. Using default 300.">> ELSE <<>>

\* the resolution argument left out of the call: the parameter's default
dpi_passed_default(resolution) == DefaultDpi

\* the resolution handed to latex_to_image, lines 188 and 245
dpi_passed(resolution) == resolution

\* the list tested against None
no_equations_is_none(eqs) == FALSE

\* line 213: if not equations_data
no_equations(eqs) == eqs = <<>>

\* the loop head: a new iteration with mode read
NewIteration(m, msgs) ==
    /\ mode' = m
    /\ latex_input' = <<>> /\ output_name' = <<>> /\ dpi_input' = <<>> /\ dpi' = 0
    /\ file_path' = <<>> /\ sub_mode' = <<>> /\ replacements_made' = 0
    /\ replacements_for_content' = <<>> /\ final_content' = <<>>
    /\ render_calls' = <<>> /\ tex_file' = <<>> /\ equations_data' = <<>>
    /\ printed' = msgs
    /\ UNCHANGED <<content, pkg_in, pkg_out, open_figures>>

\* lines 154-157 and 311
ChooseExit ==
    /\ pc = "AwaitingMode"
    /\ \E inp \in ModeInputs :
          /\ lower(strip(inp)) = <<"e">>
          /\ NewIteration(lower(strip(inp)), <<"Thank you">>)
    /\ pc' = "Exited"

\* lines 158-167
ChooseManual ==
    /\ pc = "AwaitingMode"
    /\ \E inp \in ModeInputs :
          /\ lower(strip(inp)) = <<"m">>
          /\ NewIteration(lower(strip(inp)), <<"Manual Equation Entry Mode">>)
    /\ pc' = "ManualEquation"

\* lines 194-196
ChooseFile ==
    /\ pc = "AwaitingMode"
    /\ \E inp \in ModeInputs :
          /\ lower(strip(inp)) = <<"f">>
          /\ NewIteration(lower(strip(inp)), <<"Process LaTeX File Mode">>)
    /\ pc' = "FilePath"

\* lines 308-309
ChooseInvalid ==
    /\ pc = "AwaitingMode"
    /\ \E inp \in ModeInputs :
          /\ lower(strip(inp)) \notin {<<"e">>, <<"m">>, <<"f">>}
          /\ NewIteration(lower(strip(inp)), <<"Invalid choice">>)
    /\ pc' = "AwaitingMode"

\* lines 167-175
EnterEquation ==
    /\ pc = "ManualEquation"
    /\ \E inp \in LatexInputs :
          /\ latex_input' = inp
          /\ IF startswith(inp, <<"r", "'", "$">>) \/ startswith(inp, <<"r", "'", "$", "$">>)
             THEN pc' = "ManualName" /\ printed' = printed
             ELSE /\ pc' = "AwaitingMode"
                  /\ printed' = Append(printed, "Error: Your input must start with r'$' or r'$$'")
    /\ UNCHANGED <<content, equations_data, pkg_in, pkg_out, mode, output_name, dpi_input,
                   dpi, file_path, sub_mode, replacements_made, replacements_for_content,
                   final_content, render_calls,
                   open_figures, tex_file>>

\* lines 175-180
EnterOutputName ==
    /\ pc = "ManualName"
    /\ \E inp \in NameInputs :
          output_name' = IF inp = <<>> THEN DefaultOutputName ELSE inp
    /\ pc' = "ManualDpi"
    /\ UNCHANGED <<content, equations_data, pkg_in, pkg_out, mode, latex_input, dpi_input,
                   dpi, file_path, sub_mode, replacements_made, replacements_for_content,
                   final_content, render_calls,
                   open_figures, tex_file, printed>>

\* lines 180-190: eval raises SyntaxError, latex_to_image is not called
ManualSyntaxError ==
    /\ pc = "ManualDpi"
    /\ eval_is_syntax_error(latex_input)
    /\ \E inp \in DpiInputs :
          /\ dpi_input' = inp
          /\ dpi' = dpi_from_input(inp)
          /\ printed' = printed \o dpi_messages(inp)
                          \o <<"Error: Invalid Python string syntax">>
    /\ pc' = "AwaitingMode"
    /\ UNCHANGED <<content, equations_data, pkg_in, pkg_out, mode, latex_input, output_name,
                   file_path, sub_mode, replacements_made, replacements_for_content,
                   final_content, render_calls,
                   open_figures, tex_file>>

\* lines 180-192: the equation is rendered, or latex_to_image raises
ManualRender ==
    /\ pc = "ManualDpi"
    /\ ~eval_is_syntax_error(latex_input)
    /\ \E inp \in DpiInputs, outcome \in RenderOutcomes :
          /\ open_figures + figure_left_open(outcome) <= MaxFigures
          /\ dpi_input' = inp
          /\ dpi' = dpi_from_input(inp)
          /\ render_calls' = <<RenderCall(eval_value(latex_input), output_name,
                                          dpi_passed(dpi_from_input(inp)), outcome)>>
          /\ open_figures' = open_figures + figure_left_open(outcome)
          /\ printed' = printed \o dpi_messages(inp) \o render_messages(outcome)
                          \o (IF outcome = "ok" THEN <<>>
                              ELSE <<"An unexpected error occurred during processing">>)
    /\ pc' = "AwaitingMode"
    /\ UNCHANGED <<content, equations_data, pkg_in, pkg_out, mode, latex_input, output_name,
                   file_path, sub_mode, replacements_made, replacements_for_content,
                   final_content, tex_file>>

\* lines 196-199
EnterFilePath ==
    /\ pc = "FilePath"
    /\ \E inp \in PathInputs : file_path' = inp
    /\ pc' = "FileDpi"
    /\ UNCHANGED <<content, equations_data, pkg_in, pkg_out, mode, latex_input, output_name,
                   dpi_input, dpi, sub_mode, replacements_made, replacements_for_content,
                   final_content, render_calls,
                   open_figures, tex_file, printed>>

\* lines 199-205
EnterFileDpi ==
    /\ pc = "FileDpi"
    /\ \E inp \in DpiInputs :
          /\ dpi_input' = inp
          /\ dpi' = dpi_from_input(inp)
          /\ printed' = printed \o dpi_messages(inp)
    /\ pc' = "FileSubMode"
    /\ UNCHANGED <<content, equations_data, pkg_in, pkg_out, mode, latex_input, output_name,
                   file_path, sub_mode, replacements_made, replacements_for_content,
                   final_content, render_calls,
                   open_figures, tex_file>>

\* lines 205-209
SubModeInvalid ==
    /\ pc = "FileSubMode"
    /\ \E inp \in SubModeInputs :
          /\ lower(strip(inp)) \notin {<<"i">>, <<"r">>}
          /\ sub_mode' = lower(strip(inp))
    /\ printed' = Append(printed, "Invalid sub-mode choice")
    /\ pc' = "AwaitingMode"
    /\ UNCHANGED <<content, equations_data, pkg_in, pkg_out, mode, latex_input, output_name,
                   dpi_input, dpi, file_path, replacements_made, replacements_for_content,
                   final_content, render_calls,
                   open_figures, tex_file>>

\* lines 205-211: the sub-mode is accepted and the file is scanned
SubModeLocate ==
    /\ pc = "FileSubMode"
    /\ \E inp \in SubModeInputs :
          /\ lower(strip(inp)) \in {<<"i">>, <<"r">>}
          /\ sub_mode' = lower(strip(inp))
    /\ equations_data' = extract_equations_with_spans(file_path, content)
    /\ printed' = printed \o extract_messages(file_path)
    /\ pc' = "FileLocated"
    /\ UNCHANGED <<content, pkg_in, pkg_out, mode, latex_input, output_name,
                   dpi_input, dpi, file_path, replacements_made, replacements_for_content,
                   final_content, render_calls,
                   open_figures, tex_file>>

\* lines 213-215: nothing located
FileNoEquations ==
    /\ pc = "FileLocated"
    /\ no_equations(equations_data)
    /\ printed' = Append(printed, "No equations found or file could not be read")
    /\ pc' = "AwaitingMode"
    /\ UNCHANGED <<content, equations_data, pkg_in, pkg_out, locals, render_calls,
                   open_figures, tex_file>>

\* lines 217-218: os.makedirs raises OSError, which nothing catches
FileMakedirsFails ==
    /\ pc = "FileLocated"
    /\ ~no_equations(equations_data)
    /\ printed' = Append(printed, "Traceback (most recent call last)")
    /\ pc' = "Crashed"
    /\ UNCHANGED <<content, equations_data, pkg_in, pkg_out, locals, render_calls,
                   open_figures, tex_file>>

\* lines 217-226: the second read of the file fails
FileRereadFails ==
    /\ pc = "FileLocated"
    /\ ~no_equations(equations_data)
    /\ printed' = Append(printed, "Error reading original LaTeX file")
    /\ pc' = "AwaitingMode"
    /\ UNCHANGED <<content, equations_data, pkg_in, pkg_out, locals, render_calls,
                   open_figures, tex_file>>

\* lines 217-265 and 306-307: sub-mode i
FileImagesOnly ==
    /\ pc = "FileLocated"
    /\ sub_mode = <<"i">>
    /\ ~no_equations(equations_data)
    /\ \E outcomes \in [1..Len(equations_data) -> RenderOutcomes] :
          /\ open_figures + figures_left_open(outcomes) <= MaxFigures
          /\ render_calls' = batch_calls(equations_data, splitext_root(basename(file_path)),
                                         dpi_passed(dpi), outcomes)
          /\ open_figures' = open_figures + figures_left_open(outcomes)
          /\ printed' = printed \o batch_messages(outcomes)
                          \o <<"Finished converting equations to images">>
    /\ pc' = "AwaitingMode"
    /\ UNCHANGED <<content, equations_data, pkg_in, pkg_out, locals, tex_file>>

\* lines 217-305: sub-mode r
FileReplace ==
    /\ pc = "FileLocated"
    /\ sub_mode = <<"r">>
    /\ ~no_equations(equations_data)
    /\ \E outcomes \in [1..Len(equations_data) -> RenderOutcomes] :
          LET base  == splitext_root(basename(file_path))
              calls == batch_calls(equations_data, base, dpi_passed(dpi), outcomes)
              reps  == replacements_from(equations_data, calls, 1)
          IN  /\ open_figures + figures_left_open(outcomes) <= MaxFigures
              /\ render_calls' = calls
              /\ open_figures' = open_figures + figures_left_open(outcomes)
              /\ replacements_for_content' = reps
              /\ replacements_made' = Len(reps)
              /\ final_content' = add_graphicx_package(splice(content, reps))
              /\ \E write_ok \in BOOLEAN :
                    IF write_ok
                    THEN /\ tex_file' =
                              <<[name |-> OutputDir \o base
                                            \o <<"_", "w", "i", "t", "h", "_", "i", "m", "a",
                                                 "g", "e", "s", ".", "t", "e", "x">>,
                                 text |-> final_content']>>
                         /\ printed' = printed \o batch_messages(outcomes)
                                         \o <<"Successfully generated new LaTeX file",
                                              "Total equations replaced">>
                    ELSE /\ tex_file' = <<>>
                         /\ printed' = printed \o batch_messages(outcomes)
                                         \o <<"Error writing new LaTeX file">>
    /\ pc' = "AwaitingMode"
    /\ UNCHANGED <<content, equations_data, pkg_in, pkg_out, mode, latex_input,
                   output_name, dpi_input, dpi, file_path, sub_mode>>

Next ==
    \/ ChooseExit \/ ChooseManual \/ ChooseFile \/ ChooseInvalid
    \/ EnterEquation \/ EnterOutputName \/ ManualSyntaxError \/ ManualRender
    \/ EnterFilePath \/ EnterFileDpi
    \/ SubModeInvalid \/ SubModeLocate \/ FileNoEquations \/ FileMakedirsFails \/ FileRereadFails
    \/ FileImagesOnly \/ FileReplace

Spec == Init /\ [][Next]_vars

(***************************************************************************)
(* Claims about the session (checked under Spec).                           *)
(***************************************************************************)
\* the number of \usepackage{graphicx} declarations in a text
Declarations(s) ==
    Cardinality({i \in 0..(Len(s) - Len(UsePackageGraphicx)) :
                    OccursAt(s, UsePackageGraphicx, i)})

\* C4 as stated: the text written to <base>_with_images.tex holds exactly
\* one \usepackage{graphicx} declaration, whatever the input document holds
\* and however the renders end.
C4_ExactlyOneDeclaration ==
    tex_file # <<>> => Declarations(tex_file[1].text) = 1

\* C4 as amended: the text written holds at least one declaration, and
\* exactly one when the input document holds at most one.
C4_OneDeclarationUnlessRepeatedInInput ==
    tex_file # <<>> =>
        /\ Declarations(tex_file[1].text) >= 1
        /\ Declarations(content) <= 1 => Declarations(tex_file[1].text) = 1

\* a document without the declaration, one render failed, the file written
C4_Witness ==
    /\ tex_file # <<>>
    /\ Declarations(content) = 0
    /\ \E k \in 1..Len(render_calls) : ~render_calls[k].ok
    /\ Declarations(tex_file[1].text) = 1

\* the batch loop of file mode has run to its end
BatchDone ==
    /\ pc = "AwaitingMode"
    /\ mode = <<"f">>
    /\ sub_mode \in {<<"i">>, <<"r">>}
    /\ equations_data # <<>>
    /\ "Error reading original LaTeX file" \notin Range(printed)

\* the document built in one pass from left to right: untouched text is
\* copied, a span whose render succeeded becomes its image-inclusion text, a
\* span whose render failed stays as it is
RECURSIVE ExpectedDocument(_, _, _, _, _)
ExpectedDocument(text, eqs, calls, k, pos) ==
    IF k > Len(eqs) THEN Slice(text, pos, Len(text))
    ELSE Slice(text, pos, eqs[k].start)
         \o (IF calls[k].ok
             THEN replacement_text(eqs[k].display,
                      image_filename(splitext_root(basename(file_path)), k - 1))
             ELSE eqs[k].raw)
         \o ExpectedDocument(text, eqs, calls, k + 1, eqs[k].end)

\* text is doc, or doc with the one declaration line inserted somewhere
IsWithDeclaration(text, doc) ==
    \/ text = doc
    \/ \E p \in 0..Len(doc) :
          \E decl \in {<<"\n">> \o UsePackageGraphicx, UsePackageGraphicx \o <<"\n">>} :
              text = Slice(doc, 0, p) \o decl \o Slice(doc, p, Len(doc))

\* C5: a render failure does not stop the batch: every located span is
\* passed to the Renderer in ascending document order, and in sub-mode r the
\* new document is written (unless the write itself fails) with every
\* rendered span replaced by its image-inclusion text, every failed span
\* left as its original text, and the reported count is the number of
\* successful renders.
C5_BatchSurvivesRenderFailure ==
    BatchDone =>
        /\ Len(render_calls) = Len(equations_data)
        /\ \A k \in 1..Len(render_calls) : render_calls[k].equation = equations_data[k].raw
        /\ \A k \in 1..(Len(equations_data) - 1) :
              equations_data[k].start <= equations_data[k + 1].start
        /\ (sub_mode = <<"r">> /\ "Error writing new LaTeX file" \notin Range(printed)) =>
              /\ tex_file # <<>>
              /\ IsWithDeclaration(tex_file[1].text,
                     ExpectedDocument(content, equations_data, render_calls, 1, 0))
              /\ "Total equations replaced" \in Range(printed)
              /\ replacements_made =
                     Cardinality({k \in 1..Len(render_calls) : render_calls[k].ok})

\* C6: whatever is typed and whatever fails, the program is waiting at a
\* prompt or has ended, and it ends only by the command e.
C6_OnlyExitEndsTheProgram ==
    /\ pc # "Crashed"
    /\ pc = "Exited" => mode = <<"e">>

\* C7: no figure is left open, after any sequence of manual and batch
\* renders with any mix of successes and failures.
C7_NoFigureLeftOpen == open_figures = 0

\* C8: when the Locator returns no spans (no equation in the file, missing
\* file, unreadable file), file mode prints the no-equations message and is
\* back at the mode prompt with no Renderer call, no image and no new
\* document, in sub-mode i and in sub-mode r.
C8_NothingDoneWithoutEquations ==
    ( /\ pc = "AwaitingMode"
      /\ mode = <<"f">>
      /\ sub_mode \in {<<"i">>, <<"r">>}
      /\ equations_data = <<>> )
    => /\ "No equations found or file could not be read" \in Range(printed)
       /\ render_calls = <<>>
       /\ tex_file = <<>>
       /\ "Finished converting equations to images" \notin Range(printed)
       /\ "Successfully generated new LaTeX file" \notin Range(printed)

\* a readable file with text and no equation, processed in sub-mode r
C8_Witness ==
    /\ pc = "AwaitingMode"
    /\ mode = <<"f">>
    /\ sub_mode = <<"r">>
    /\ file_path = TexPath
    /\ content # <<>>
    /\ equations_data = <<>>
    /\ "No equations found or file could not be read" \in Range(printed)

\* C10: in both modes the Renderer gets 300 when the DPI entry is empty or
\* is not an integer, and the integer entered otherwise.
C10_DpiDefaultOrAsEntered ==
    \A k \in 1..Len(render_calls) :
        render_calls[k].dpi =
            IF dpi_input = <<>> \/ ~int_parses(dpi_input) THEN 300
            ELSE int_value(dpi_input)

\* a batch of two renders after a DPI entry that is not a number
C10_Witness ==
    /\ mode = <<"f">>
    /\ dpi_input = <<"a", "b", "c">>
    /\ Len(render_calls) >= 2
    /\ \A k \in 1..Len(render_calls) : render_calls[k].dpi = 300

\* C14: every resolution passed to the Renderer, in manual mode and in file
\* mode, is a positive integer, whatever is typed at the DPI prompt.
C14_ResolutionPositive ==
    \A k \in 1..Len(render_calls) : render_calls[k].dpi > 0

(***************************************************************************)
(* Claims about where add_graphicx_package puts the declaration (checked   *)
(* under SpecPackage).                                                      *)
(***************************************************************************)
\* a document class declaration starts at offset i, \documentclass{...} or
\* \documentclass[...]{...}: the offset after its closing brace, or -1
ClassDeclarationEnd(c, i) ==
    LET DocumentClass == SubSeq(DocumentClassOpen, 1, Len(DocumentClassOpen) - 1)
        k == i + Len(DocumentClass)
        a == IF OccursAt(c, <<"[">>, k)
             THEN (LET j == Find(c, <<"]">>, k + 1) IN IF j < 0 THEN -1 ELSE j + 1)
             ELSE k
    IN  IF ~OccursAt(c, DocumentClass, i) \/ a < 0 \/ ~OccursAt(c, <<"{">>, a) THEN -1
        ELSE LET j == Find(c, <<"}">>, a + 1) IN IF j < 0 THEN -1 ELSE j + 1

\* the text holds a class declaration followed later by \begin{document}
HasClassThenBody(c) ==
    \E i \in 0..(Len(c) - 1) :
        /\ ClassDeclarationEnd(c, i) >= 0
        /\ Find(c, BeginDocument, ClassDeclarationEnd(c, i)) >= 0

\* the text holds the declaration after a class declaration and before the
\* \begin{document} that follows that class declaration
DeclaredInPreamble(c) ==
    \E i \in 0..(Len(c) - 1) :
        LET e == ClassDeclarationEnd(c, i)
            u == Find(c, UsePackageGraphicx, e)
        IN  /\ e >= 0
            /\ u >= 0
            /\ Find(c, BeginDocument, e) >= u + Len(UsePackageGraphicx)

\* C12: for a text without the declaration that holds a class declaration
\* followed later by \begin{document}, the declaration is inserted after the
\* class declaration and before \begin{document}; the declaration is
\* prepended to the text only when the text has no class declaration
\* followed by \begin{document}.
C12_DeclaredAfterClassBeforeBody ==
    (pc = "added" /\ package_missing(pkg_in)) =>
        /\ HasClassThenBody(pkg_in) => DeclaredInPreamble(pkg_out)
        /\ pkg_out = UsePackageGraphicx \o <<"\n">> \o pkg_in => ~HasClassThenBody(pkg_in)

\* C15: add_graphicx_package only adds text: its result is its argument,
\* or its argument with the one declaration and its line break inserted, so
\* every character of the argument is kept in its order, also the text
\* before \documentclass.
C15_OnlyAddsTheDeclaration ==
    pc = "added" => IsWithDeclaration(pkg_out, pkg_in)

=============================================================================
